---------------------------- MODULE Spec2Model ----------------------------
(***************************************************************************)
(* Protocol session and HTTP transport of the SkyFi MCP server:            *)
(* ProtocolHandler (parse / validate / envelopes), MCPServerManager        *)
(* (initialize-then-operate dispatch) and HTTPTransport (POST /mcp).       *)
(***************************************************************************)
EXTENDS Integers, Sequences, FiniteSets, TLC

(***************************************************************************)
(* JavaScript / JSON values.  Every value is a record [t, s, n]: t is the  *)
(* type tag, s the text of a string, n the value of a number.              *)
(* "missing" is a property an object does not have, "undefined" a property *)
(* whose value is undefined, "cyclic" a value JSON.stringify throws on;    *)
(* "omitted" is a key that does not occur in a JSON text.                  *)
(***************************************************************************)
JVal(tag, str, num) == [t |-> tag, s |-> str, n |-> num]
Missing == JVal("missing", "", 0)
Undefined == JVal("undefined", "", 0)
Omitted == JVal("omitted", "", 0)
JNull == JVal("null", "", 0)
JStr(str) == JVal("string", str, 0)
JNum(num) == JVal("number", "", num)
JBool == JVal("boolean", "true", 0)
JObject == JVal("object", "{}", 0)
JArray == JVal("array", "[]", 0)
Cyclic == JVal("cyclic", "", 0)

\* JSON.stringify of one property value: properties that are absent or
\* undefined do not occur in the text.
StringifyVal(v) == IF v.t \in {"missing", "undefined"} THEN Omitted ELSE v

\* JSON.parse of one key: a key the text omits is a property the object lacks.
ParseVal(v) == IF v.t = "omitted" THEN Missing ELSE v

(***************************************************************************)
(* MCPErrorCode                                                            *)
(***************************************************************************)
PARSE_ERROR == -32700
INVALID_REQUEST == -32600
METHOD_NOT_FOUND == -32601
INVALID_PARAMS == -32602
INTERNAL_ERROR == -32603

MCPErrorCode == {PARSE_ERROR, INVALID_REQUEST, METHOD_NOT_FOUND, INVALID_PARAMS, INTERNAL_ERROR}

(***************************************************************************)
(* Request bodies.  params is an object with the keys the method schemas   *)
(* read (every other key is stripped or ignored by them); clientInfo is    *)
(* the nested object {name, version}.                                      *)
(***************************************************************************)
ClientInfo(tag, nm, ver) == [t |-> tag, name |-> nm, version |-> ver]
NoClientInfo == ClientInfo("missing", Missing, Missing)

Params(tag, pv, caps, ci, nm, args) ==
    [t |-> tag, protocolVersion |-> pv, capabilities |-> caps, clientInfo |-> ci,
     name |-> nm, arguments |-> args]
NoParams == Params("missing", Missing, Missing, NoClientInfo, Missing, Missing)
EmptyParams == Params("object", Missing, Missing, NoClientInfo, Missing, Missing)

Body(tag, ver, i, m, p) == [t |-> tag, jsonrpc |-> ver, id |-> i, method |-> m, params |-> p]
NoBody == Body("undefined", Missing, Missing, Missing, NoParams)

\* JSON.stringify / JSON.parse of a request body, key by key.
StringifyParams(p) ==
    IF p.t \in {"missing", "undefined"} THEN [p EXCEPT !.t = "omitted"]
    ELSE [p EXCEPT !.protocolVersion = StringifyVal(@), !.capabilities = StringifyVal(@),
                   !.clientInfo = [@ EXCEPT !.t = IF @ \in {"missing", "undefined"} THEN "omitted" ELSE @,
                                            !.name = StringifyVal(@), !.version = StringifyVal(@)],
                   !.name = StringifyVal(@), !.arguments = StringifyVal(@)]

ParseParams(p) ==
    IF p.t = "omitted" THEN [p EXCEPT !.t = "missing"]
    ELSE [p EXCEPT !.protocolVersion = ParseVal(@), !.capabilities = ParseVal(@),
                   !.clientInfo = [@ EXCEPT !.t = IF @ = "omitted" THEN "missing" ELSE @,
                                            !.name = ParseVal(@), !.version = ParseVal(@)],
                   !.name = ParseVal(@), !.arguments = ParseVal(@)]

JSONstringify(b) ==
    [b EXCEPT !.jsonrpc = StringifyVal(@), !.id = StringifyVal(@), !.method = StringifyVal(@),
              !.params = StringifyParams(@)]

JSONparse(text) ==
    [text EXCEPT !.jsonrpc = ParseVal(@), !.id = ParseVal(@), !.method = ParseVal(@),
                 !.params = ParseParams(@)]

(***************************************************************************)
(* zod schemas                                                             *)
(***************************************************************************)
\* z.record(z.unknown()).optional()
IsOptionalRecord(v) == v.t \in {"missing", "undefined", "object"}

\* baseRequestSchema taking any string for jsonrpc.
baseRequestSchema_AnyVersion(v) ==
    /\ v.t = "object"
    /\ v.jsonrpc.t = "string"
    /\ v.id.t \in {"string", "number"}
    /\ v.method.t = "string"
    /\ v.params.t \in {"missing", "undefined", "object"}

baseRequestSchema(v) ==
    /\ v.t = "object"
    /\ v.jsonrpc = JStr("2.0")
    /\ v.id.t \in {"string", "number"}
    /\ v.method.t = "string"
    /\ IsOptionalRecord(v.params)

initializeRequestSchema(v) ==
    /\ baseRequestSchema(v)
    /\ v.method = JStr("initialize")
    /\ v.params.t = "object"
    /\ v.params.protocolVersion.t = "string"
    /\ IsOptionalRecord(v.params.capabilities)
    /\ \/ v.params.clientInfo.t \in {"missing", "undefined"}
       \/ /\ v.params.clientInfo.t = "object"
          /\ v.params.clientInfo.name.t = "string"
          /\ v.params.clientInfo.version.t = "string"

toolsListRequestSchema(v) ==
    /\ baseRequestSchema(v)
    /\ v.method = JStr("tools/list")
    /\ v.params.t \in {"missing", "undefined", "object"}

toolsCallRequestSchema(v) ==
    /\ baseRequestSchema(v)
    /\ v.method = JStr("tools/call")
    /\ v.params.t = "object"
    /\ v.params.name.t = "string"
    /\ IsOptionalRecord(v.params.arguments)

SchemaAccepts(schema, v) ==
    CASE schema = "base" -> baseRequestSchema(v)
      [] schema = "initialize" -> initializeRequestSchema(v)
      [] schema = "tools/list" -> toolsListRequestSchema(v)
      [] schema = "tools/call" -> toolsCallRequestSchema(v)

(***************************************************************************)
(* Errors.  A thrown value is [isError, message, code, stack]: isError is  *)
(* `instanceof Error`, code the value of its code property.                *)
(***************************************************************************)
Thrown(isErr, msg, c) ==
    [isError |-> isErr, message |-> msg, code |-> c,
     stack |-> IF isErr THEN JStr("Error: " \o msg \o " at <frames>") ELSE Undefined]
NoError == [isError |-> FALSE, message |-> "", code |-> Missing, stack |-> Undefined]

\* ProtocolHandler.createError / MCPServerManager.createError
createError(code, message) == Thrown(TRUE, message, JNum(code))


(***************************************************************************)
(* Results.  A handler's return value is an object with the keys the       *)
(* server's own handlers set, undefined, or a value that cannot be         *)
(* serialized.                                                             *)
(***************************************************************************)
Result(tag, st, ts, pv, sname, sver, caps, tl) ==
    [t |-> tag, status |-> st, timestamp |-> ts, protocolVersion |-> pv,
     serverInfo |-> [name |-> sname, version |-> sver], capabilities |-> caps, tools |-> tl]
NoResult == Result("missing", Missing, Missing, Missing, Missing, Missing, Missing, Missing)
UndefinedResult == [NoResult EXCEPT !.t = "undefined"]
CyclicResult == [NoResult EXCEPT !.t = "cyclic"]
PlainResult == [NoResult EXCEPT !.t = "object"]

\* config.serverName, config.version and new Date().toISOString()
serverName == "skyfi-mcp-server"
version == "0.1.0"
NowISO == "2025-11-15T23:40:00.000Z"

\* What a call returns: a value, or a thrown error.
Returned(v) == [threw |-> FALSE, value |-> v, error |-> NoError]
Threw(e) == [threw |-> TRUE, value |-> NoResult, error |-> e]

(***************************************************************************)
(* ProtocolHandler                                                         *)
(***************************************************************************)
\* parseMessage turning every id into text.
parseMessage_IdAsText(message) ==
    LET parsed == JSONparse(message) IN
    IF baseRequestSchema(parsed)
    THEN [ok |-> TRUE,
          request |-> [parsed EXCEPT !.id = IF @.t = "number" THEN JStr("7") ELSE @],
          error |-> NoError]
    ELSE [ok |-> FALSE, request |-> NoBody,
          error |-> createError(PARSE_ERROR, "Failed to parse JSON-RPC message")]

parseMessage(message) ==
    LET parsed == JSONparse(message) IN
    IF baseRequestSchema(parsed)
    THEN [ok |-> TRUE, request |-> parsed, error |-> NoError]
    ELSE [ok |-> FALSE, request |-> NoBody,
          error |-> createError(PARSE_ERROR, "Failed to parse JSON-RPC message")]

\* validateRequest reporting a schema failure as invalid params.
validateRequest_InvalidParams(request, schema) ==
    IF SchemaAccepts(schema, request)
    THEN [ok |-> TRUE, request |-> request, error |-> NoError]
    ELSE [ok |-> FALSE, request |-> NoBody,
          error |-> createError(INVALID_PARAMS, "Invalid params")]

validateRequest(request, schema) ==
    IF SchemaAccepts(schema, request)
    THEN [ok |-> TRUE, request |-> request, error |-> NoError]
    ELSE [ok |-> FALSE, request |-> NoBody,
          error |-> createError(INVALID_REQUEST, "Invalid request format")]

ErrorObject(c, msg, d) == [t |-> "object", code |-> c, message |-> msg, data |-> d]
NoErrorObject == [t |-> "missing", code |-> Missing, message |-> Missing, data |-> Missing]

createSuccessResponse(id, result) ==
    [jsonrpc |-> JStr("2.0"), id |-> id, result |-> result, error |-> NoErrorObject]

createErrorResponse(id, code, message, data) ==
    [jsonrpc |-> JStr("2.0"),
     id |-> IF id.t \in {"null", "undefined"} THEN JNum(0) ELSE id,
     result |-> NoResult,
     error |-> ErrorObject(code, JStr(message), data)]

(***************************************************************************)
(* MCPServerManager                                                        *)
(***************************************************************************)
\* createMethodNotFoundError with the code of an invalid request.
createMethodNotFoundError_InvalidRequest(method) ==
    createError(INVALID_REQUEST, "Method not found: " \o method)

createMethodNotFoundError(method) ==
    createError(METHOD_NOT_FOUND, "Method not found: " \o method)

\* ensureInitialized without its check.
ensureInitialized_Skipped(init) == NoError

\* The error ensureInitialized throws, or NoError when it returns.
ensureInitialized(init) ==
    IF ~init
    THEN createError(INVALID_REQUEST, "Server not initialized. Call initialize first.")
    ELSE NoError

\* handleInitialize refusing a second handshake.
handleInitialize_OnlyOnce(request, init) ==
    LET validated == validateRequest(request, "initialize") IN
    IF ~validated.ok
    THEN [out |-> Threw(validated.error), initialized |-> init]
    ELSE IF init
    THEN [out |-> Threw(createError(INVALID_REQUEST, "Server already initialized")),
          initialized |-> init]
    ELSE [out |-> Returned(Result("object", Missing, Missing, JStr("1.0.0"),
                                  JStr(serverName), JStr(version), JObject, Missing)),
          initialized |-> TRUE]

\* handleInitialize setting the flag before it validates.
handleInitialize_FlagFirst(request, init) ==
    LET validated == validateRequest(request, "initialize") IN
    IF ~validated.ok
    THEN [out |-> Threw(validated.error), initialized |-> TRUE]
    ELSE [out |-> Returned(Result("object", Missing, Missing, JStr("1.0.0"),
                                  JStr(serverName), JStr(version), JObject, Missing)),
          initialized |-> TRUE]

\* Each handler gives [out, initialized]: what it returns or throws, and the
\* initialized flag it leaves.
handleInitialize(request, init) ==
    LET validated == validateRequest(request, "initialize") IN
    IF ~validated.ok
    THEN [out |-> Threw(validated.error), initialized |-> init]
    ELSE [out |-> Returned(Result("object", Missing, Missing, JStr("1.0.0"),
                                  JStr(serverName), JStr(version), JObject, Missing)),
          initialized |-> TRUE]

\* handleToolsList checking a copy of the flag taken when the server was built.
handleToolsList_StaleFlag(request, init) ==
    LET guard == ensureInitialized(FALSE)
        validated == validateRequest(request, "tools/list") IN
    IF guard.isError THEN [out |-> Threw(guard), initialized |-> init]
    ELSE IF ~validated.ok THEN [out |-> Threw(validated.error), initialized |-> init]
    ELSE [out |-> Returned([PlainResult EXCEPT !.tools = JArray]), initialized |-> init]

handleToolsList(request, init) ==
    LET guard == ensureInitialized(init)
        validated == validateRequest(request, "tools/list") IN
    IF guard.isError THEN [out |-> Threw(guard), initialized |-> init]
    ELSE IF ~validated.ok THEN [out |-> Threw(validated.error), initialized |-> init]
    ELSE [out |-> Returned([PlainResult EXCEPT !.tools = JArray]), initialized |-> init]

\* handleToolsCall validating the params before it checks the session.
handleToolsCall_ValidateFirst(request, init) ==
    LET guard == ensureInitialized(init)
        validated == validateRequest(request, "tools/call") IN
    IF ~validated.ok THEN [out |-> Threw(validated.error), initialized |-> init]
    ELSE IF guard.isError THEN [out |-> Threw(guard), initialized |-> init]
    ELSE [out |-> Threw(createMethodNotFoundError("Tool not found: " \o validated.request.params.name.s)),
          initialized |-> init]

\* handleToolsCall answering for a tool instead of throwing.
handleToolsCall_ReturnsContent(request, init) ==
    LET guard == ensureInitialized(init)
        validated == validateRequest(request, "tools/call") IN
    IF guard.isError THEN [out |-> Threw(guard), initialized |-> init]
    ELSE IF ~validated.ok THEN [out |-> Threw(validated.error), initialized |-> init]
    ELSE [out |-> Returned(PlainResult), initialized |-> init]

handleToolsCall(request, init) ==
    LET guard == ensureInitialized(init)
        validated == validateRequest(request, "tools/call") IN
    IF guard.isError THEN [out |-> Threw(guard), initialized |-> init]
    ELSE IF ~validated.ok THEN [out |-> Threw(validated.error), initialized |-> init]
    ELSE [out |-> Threw(createMethodNotFoundError("Tool not found: " \o validated.request.params.name.s)),
          initialized |-> init]

\* handlePing behind the initialization check.
handlePing_RequiresInit(init) ==
    IF ~init
    THEN [out |-> Threw(createError(INVALID_REQUEST, "Server not initialized. Call initialize first.")),
          initialized |-> init]
    ELSE [out |-> Returned([PlainResult EXCEPT !.status = JStr("pong"), !.timestamp = JStr(NowISO)]),
          initialized |-> init]

\* handlePing opening the session as a side effect.
handlePing_MarksInitialized(init) ==
    [out |-> Returned([PlainResult EXCEPT !.status = JStr("pong"), !.timestamp = JStr(NowISO)]),
     initialized |-> TRUE]

handlePing(init) ==
    [out |-> Returned([PlainResult EXCEPT !.status = JStr("pong"), !.timestamp = JStr(NowISO)]),
     initialized |-> init]

handleRequest(request, init) ==
    LET method == request.method.s IN
    CASE method = "initialize" -> handleInitialize(request, init)
      [] method = "tools/list" -> handleToolsList(request, init)
      [] method = "tools/call" -> handleToolsCall(request, init)
      [] method = "ping" -> handlePing(init)
      [] OTHER -> [out |-> Threw(createMethodNotFoundError(method)), initialized |-> init]


(***************************************************************************)
(* HTTP responses.  res.json(obj) sends JSON.stringify(obj): a property    *)
(* that is absent or undefined is not in the text; a value that cannot be  *)
(* serialized makes it throw before anything is sent.                      *)
(***************************************************************************)
StringifyResult(r) ==
    IF r.t \in {"missing", "undefined"} THEN [r EXCEPT !.t = "omitted"]
    ELSE [r EXCEPT !.status = StringifyVal(@), !.timestamp = StringifyVal(@),
                   !.protocolVersion = StringifyVal(@),
                   !.serverInfo = [name |-> StringifyVal(@.name), version |-> StringifyVal(@.version)],
                   !.capabilities = StringifyVal(@), !.tools = StringifyVal(@)]

StringifyErrorObject(e) ==
    IF e.t \in {"missing", "undefined"} THEN [e EXCEPT !.t = "omitted"]
    ELSE [e EXCEPT !.code = StringifyVal(@), !.message = StringifyVal(@), !.data = StringifyVal(@)]

StringifyResponse(r) ==
    [jsonrpc |-> StringifyVal(r.jsonrpc), id |-> StringifyVal(r.id),
     result |-> StringifyResult(r.result), error |-> StringifyErrorObject(r.error)]

CanStringify(r) == r.result.t # "cyclic" /\ r.id.t # "cyclic"

\* ProtocolHandler.formatResponse(response): JSON.stringify(response)
formatResponse(response) == StringifyResponse(response)

\* JSON.parse of the text of a response, key by key.
ParseResult(r) ==
    IF r.t = "omitted" THEN [r EXCEPT !.t = "missing"]
    ELSE [r EXCEPT !.status = ParseVal(@), !.timestamp = ParseVal(@),
                   !.protocolVersion = ParseVal(@),
                   !.serverInfo = [name |-> ParseVal(@.name), version |-> ParseVal(@.version)],
                   !.capabilities = ParseVal(@), !.tools = ParseVal(@)]

ParseErrorObject(e) ==
    IF e.t = "omitted" THEN [e EXCEPT !.t = "missing"]
    ELSE [e EXCEPT !.code = ParseVal(@), !.message = ParseVal(@), !.data = ParseVal(@)]

ParseResponse(text) ==
    [jsonrpc |-> ParseVal(text.jsonrpc), id |-> ParseVal(text.id),
     result |-> ParseResult(text.result), error |-> ParseErrorObject(text.error)]

\* The text of a body that is not a JSON-RPC envelope.
NoEnvelope == StringifyResponse([jsonrpc |-> Missing, id |-> Missing, result |-> NoResult, error |-> NoErrorObject])

\* An HTTP response: status, the shape of its body and, for an envelope, its text;
\* sends counts the bodies written for the request.
HttpResponse(st, sh, text, k) == [status |-> st, shape |-> sh, body |-> text, sends |-> k]
NoResponse == HttpResponse(0, "none", NoEnvelope, 0)

(***************************************************************************)
(* HTTPTransport: the POST /mcp route                                      *)
(***************************************************************************)
\* The catch block with an HTTP status chosen by the kind of error.
CatchError_StatusByKind(body, error) ==
    LET errorMessage == IF error.isError THEN error.message ELSE "Internal server error"
        errorCode == IF error.isError /\ error.code.t = "number" THEN error.code ELSE JNum(INTERNAL_ERROR)
        requestId == IF body.t \in {"object", "array"} /\ body.id.t # "missing" THEN body.id ELSE JNull
        errorResponse == createErrorResponse(requestId, errorCode, errorMessage,
                                             IF error.isError THEN error.stack ELSE Undefined)
    IN HttpResponse(IF errorCode.n = INTERNAL_ERROR THEN 500 ELSE 400, "envelope",
                    StringifyResponse(errorResponse), 1)

\* The catch block logging the failure and throwing it again: nothing is sent.
CatchError_Rethrows(body, error) == NoResponse

\* The catch block answering without looking for the request's id.
CatchError_NoIdRecovery(body, error) ==
    LET errorMessage == IF error.isError THEN error.message ELSE "Internal server error"
        errorCode == IF error.isError /\ error.code.t = "number" THEN error.code ELSE JNum(INTERNAL_ERROR)
        errorResponse == createErrorResponse(JNull, errorCode, errorMessage,
                                             IF error.isError THEN error.stack ELSE Undefined)
    IN HttpResponse(500, "envelope", StringifyResponse(errorResponse), 1)

\* The catch block reporting the stack as the message.
CatchError_StackInMessage(body, error) ==
    LET errorMessage == IF error.isError THEN error.stack.s ELSE "Internal server error"
        errorCode == IF error.isError /\ error.code.t = "number" THEN error.code ELSE JNum(INTERNAL_ERROR)
        requestId == IF body.t \in {"object", "array"} /\ body.id.t # "missing" THEN body.id ELSE JNull
        errorResponse == createErrorResponse(requestId, errorCode, errorMessage,
                                             IF error.isError THEN error.stack ELSE Undefined)
    IN HttpResponse(500, "envelope", StringifyResponse(errorResponse), 1)

\* The catch block: the error envelope for a failure of the request with req.body = body.
CatchError(body, error) ==
    LET errorMessage == IF error.isError THEN error.message ELSE "Internal server error"
        errorCode == IF error.isError /\ error.code.t = "number" THEN error.code ELSE JNum(INTERNAL_ERROR)
        requestId == IF body.t \in {"object", "array"} /\ body.id.t # "missing" THEN body.id ELSE JNull
        errorResponse == createErrorResponse(requestId, errorCode, errorMessage,
                                             IF error.isError THEN error.stack ELSE Undefined)
    IN HttpResponse(500, "envelope", StringifyResponse(errorResponse), 1)

\* res.json(createSuccessResponse(id, result)), and the catch block when it throws.
SendSuccess(body, id, result) ==
    LET response == createSuccessResponse(id, result) IN
    IF CanStringify(response)
    THEN HttpResponse(200, "envelope", StringifyResponse(response), 1)
    ELSE CatchError(body, Thrown(TRUE, "Converting circular structure to JSON", Missing))


(***************************************************************************)
(* Bounds and inputs                                                       *)
(***************************************************************************)
\* Requests the route handler may be suspended on at the same time.
MaxInFlight == 2
Slots == 1..MaxInFlight

Ids == {JNum(7), JStr("7")}
Methods == {"initialize", "ping", "tools/list", "tools/call", "unknown/method", ""}
ParamsInputs ==
    {NoParams, EmptyParams,
     [EmptyParams EXCEPT !.protocolVersion = JStr("1.0.0")],
     [EmptyParams EXCEPT !.protocolVersion = JStr("1.0.0"),
                         !.clientInfo = ClientInfo("object", JStr("test-client"), JStr("1.0.0"))],
     [EmptyParams EXCEPT !.protocolVersion = JStr("1.0.0"),
                         !.clientInfo = ClientInfo("object", JStr("test-client"), Missing)],
     [EmptyParams EXCEPT !.protocolVersion = JNum(1)],
     [EmptyParams EXCEPT !.name = JStr("unknown-tool"), !.arguments = JObject],
     [EmptyParams EXCEPT !.name = JStr("unknown-tool"), !.arguments = JStr("x")]}

\* Bodies whose generic envelope is well-formed.
WellFormedBodies ==
    {Body("object", JStr("2.0"), i, JStr(m), p) : i \in Ids, m \in Methods, p \in ParamsInputs}

\* Bodies with one envelope field absent or mistyped, a JSON array, and a
\* request without a parsed body.
PingBody == Body("object", JStr("2.0"), JNum(7), JStr("ping"), NoParams)
MalformedBodies ==
    {[PingBody EXCEPT !.jsonrpc = v] : v \in {Missing, JStr("1.0")}}
    \cup {[PingBody EXCEPT !.id = v] : v \in {Missing, JNull, JBool, JObject}}
    \cup {[PingBody EXCEPT !.method = v] : v \in {Missing, JNum(1)}}
    \cup {[PingBody EXCEPT !.params = [NoParams EXCEPT !.t = tg]] : tg \in {"array", "null"}}
    \cup {Body("array", Missing, Missing, Missing, NoParams), NoBody}

Bodies == WellFormedBodies \cup MalformedBodies

\* Server-sent events: the ids randomUUID() can give, the clock's range, the
\* event names and the serialized data callers send, and the events a stream
\* takes.  The clock counts ticks, TicksPerMinute of them in a minute.
MaxClients == 2
ClientIds == 1..MaxClients
MaxTime == 1
Times == 0..MaxTime
MaxWrites == 2
TicksPerMinute == 2
IdleLimits == 0..(MaxTime \div TicksPerMinute)
Events == {"message"}
Datas == {"{}"}

\* A response stream: not opened, "open", "closed" by the peer or "ended" by
\* the server; first and last are the first and the last message written to
\* it and written is the number of messages written.
NoStream == [state |-> "none", allowOrigin |-> "", first |-> "", last |-> "", written |-> 0]

\* The last call of sendSSEMessage from outside the transport and what it returned.
NoSseCall == [op |-> "none", clientId |-> 0, returned |-> FALSE]

(***************************************************************************)
(* State                                                                   *)
(***************************************************************************)
VARIABLES
    initialized,      \* MCPServerManager.initialized
    requestHandler,   \* HTTPTransport.requestHandler: "none", "manager" or "custom"
    serverClosed,     \* the SDK Server was closed by shutdown()
    inflight,         \* per slot, the POST /mcp call suspended at `await this.requestHandler(...)`
    exchange,         \* the last HTTP exchange completed: the request and the response sent for it
    sseClients,       \* HTTPTransport.sseClients: client id -> lastActivity
    streams,          \* per client id, the response stream of its GET /sse
    timers,           \* the client ids whose keepalive interval is set
    now,              \* the clock new Date() reads
    sseCall,          \* the call of sendSSEMessage that has just returned, with its return value
    codec             \* the last call of parseMessage or formatResponse, with what it gave

mcpVars == <<initialized, requestHandler, serverClosed, inflight, exchange>>
sseVars == <<sseClients, streams, timers, now, sseCall>>
vars == <<initialized, requestHandler, serverClosed, inflight, exchange,
          sseClients, streams, timers, now, sseCall, codec>>

\* A promise: pending, or settled with what the call returned or threw.
PendingPromise == [settled |-> FALSE, outcome |-> Returned(NoResult)]

IdleSlot ==
    [pc |-> "idle", body |-> NoBody, mcpRequest |-> NoBody, handler |-> "none",
     promise |-> PendingPromise, initBefore |-> FALSE]

NoExchange ==
    [route |-> "none", body |-> NoBody, handler |-> "none", initBefore |-> FALSE,
     inRoute |-> FALSE, dispatched |-> FALSE, allowOrigin |-> "", response |-> NoResponse]

Exchange(b, h, init, disp, resp) ==
    [route |-> "POST /mcp", body |-> b, handler |-> h, initBefore |-> init,
     inRoute |-> TRUE, dispatched |-> disp, allowOrigin |-> "*", response |-> resp]

\* No response object, and no call of the codec yet.
NoResponseObject == [jsonrpc |-> Missing, id |-> Missing, result |-> NoResult, error |-> NoErrorObject]
NoCodec ==
    [op |-> "none", message |-> JSONstringify(NoBody), parsed |-> parseMessage(JSONstringify(NoBody)),
     response |-> NoResponseObject, formatted |-> NoEnvelope, reparsed |-> NoResponseObject]

\* this.sseClients = new Map(): no client, no stream, no timer.
SseInit ==
    /\ sseClients = <<>>
    /\ streams = [c \in ClientIds |-> NoStream]
    /\ timers = {}
    /\ now = 0
    /\ sseCall = NoSseCall

\* new MCPServerManager(): the constructor installs handleRequest on its transport.
Init ==
    /\ initialized = FALSE
    /\ requestHandler = "manager"
    /\ serverClosed = FALSE
    /\ inflight = [s \in Slots |-> IdleSlot]
    /\ exchange = NoExchange
    /\ SseInit
    /\ codec = NoCodec

\* new HTTPTransport(): no request handler yet.
TransportInit ==
    /\ initialized = FALSE
    /\ requestHandler = "none"
    /\ serverClosed = FALSE
    /\ inflight = [s \in Slots |-> IdleSlot]
    /\ exchange = NoExchange
    /\ SseInit
    /\ codec = NoCodec

(***************************************************************************)
(* Actions                                                                 *)
(***************************************************************************)
\* HTTPTransport.setRequestHandler(handler)
setRequestHandler(handler) ==
    /\ requestHandler' = handler
    /\ UNCHANGED <<initialized, serverClosed, inflight, exchange, sseVars, codec>>

\* What a handler settles its promise with, when it is not the manager's.
CustomOutcomes ==
    {Returned(PlainResult), Returned(UndefinedResult), Returned(CyclicResult),
     Threw(Thrown(TRUE, "boom", Missing)),
     Threw(Thrown(TRUE, "bad params", JNum(INVALID_PARAMS))),
     Threw(Thrown(TRUE, "teapot", JNum(418))),
     Threw(Thrown(TRUE, "no entry", JStr("ENOENT"))),
     Threw(Thrown(FALSE, "", Missing))}

\* The continuation after `await this.requestHandler(mcpRequest)`: the response
\* for the outcome the promise settled with.
Continue(body, mcpRequest, outcome) ==
    IF outcome.threw
    THEN CatchError(body, outcome.error)
    ELSE SendSuccess(body, mcpRequest.id, outcome.value)

\* A handler that builds a manager for each request: no request sees the flag
\* another request set.
CallHandler_FreshSession(handler, request, init) ==
    IF handler = "manager"
    THEN LET handled == handleRequest(request, FALSE) IN
         [threw |-> handled.out.threw, error |-> handled.out.error,
          promise |-> [settled |-> TRUE, outcome |-> handled.out],
          initialized |-> handled.initialized \/ init]
    ELSE [threw |-> FALSE, error |-> NoError, promise |-> PendingPromise, initialized |-> init]

\* What the installed handler does when called: the manager's handler runs
\* handleRequest and returns Promise.resolve(value), or throws what it throws;
\* any other handler returns a promise that is still pending.
CallHandler(handler, request, init) ==
    IF handler = "manager"
    THEN LET handled == handleRequest(request, init) IN
         [threw |-> handled.out.threw, error |-> handled.out.error,
          promise |-> [settled |-> TRUE, outcome |-> handled.out],
          initialized |-> handled.initialized]
    ELSE [threw |-> FALSE, error |-> NoError, promise |-> PendingPromise, initialized |-> init]

\* POST /mcp with req.body = body: the route handler up to its response or, when
\* the request handler returned a promise, up to the await.
PostMcp(s, body) ==
    /\ inflight[s].pc = "idle"
    /\ LET parsed == parseMessage(JSONstringify(body))
           called == CallHandler(requestHandler, parsed.request, initialized)
       IN
       IF body.t = "undefined"
       THEN /\ exchange' = Exchange(body, requestHandler, initialized, FALSE,
                                    CatchError(body, Thrown(TRUE, "Request body is required", Missing)))
            /\ UNCHANGED <<initialized, inflight>>
       ELSE IF ~parsed.ok
       THEN /\ exchange' = Exchange(body, requestHandler, initialized, FALSE,
                                    CatchError(body, parsed.error))
            /\ UNCHANGED <<initialized, inflight>>
       ELSE IF requestHandler = "none"
       THEN /\ exchange' = Exchange(body, requestHandler, initialized, FALSE,
                                    CatchError(body, Thrown(TRUE, "Request handler not configured", Missing)))
            /\ UNCHANGED <<initialized, inflight>>
       ELSE /\ initialized' = called.initialized
            /\ IF called.threw
               THEN /\ exchange' = Exchange(body, requestHandler, initialized, TRUE,
                                            CatchError(body, called.error))
                    /\ UNCHANGED inflight
               ELSE /\ inflight' = [inflight EXCEPT ![s] =
                                       [pc |-> "await", body |-> body, mcpRequest |-> parsed.request,
                                        handler |-> requestHandler, promise |-> called.promise,
                                        initBefore |-> initialized]]
                    /\ UNCHANGED exchange
    /\ UNCHANGED <<requestHandler, serverClosed, sseVars, codec>>

\* The continuation reading the request from a field shared by all calls: it
\* answers with the id of the request that arrived last.
Resume_SharedRequest(s, outcome) ==
    LET last == CHOOSE t \in Slots :
                   inflight[t].pc = "await" /\ \A u \in Slots : inflight[u].pc = "await" => u <= t IN
    /\ inflight[s].pc = "await"
    /\ inflight[s].promise.settled => outcome = inflight[s].promise.outcome
    /\ exchange' = Exchange(inflight[s].body, inflight[s].handler, inflight[s].initBefore, TRUE,
                            Continue(inflight[s].body, inflight[last].mcpRequest, outcome))
    /\ inflight' = [inflight EXCEPT ![s] = IdleSlot]
    /\ UNCHANGED <<initialized, requestHandler, serverClosed, sseVars, codec>>

\* The route handler of slot s resumes after the await with the outcome of its promise.
Resume(s, outcome) ==
    /\ inflight[s].pc = "await"
    /\ inflight[s].promise.settled => outcome = inflight[s].promise.outcome
    /\ exchange' = Exchange(inflight[s].body, inflight[s].handler, inflight[s].initBefore, TRUE,
                            Continue(inflight[s].body, inflight[s].mcpRequest, outcome))
    /\ inflight' = [inflight EXCEPT ![s] = IdleSlot]
    /\ UNCHANGED <<initialized, requestHandler, serverClosed, sseVars, codec>>

\* The error express.json() passes to next() for a body that is not JSON: a
\* SyntaxError whose status property is 400.
BodyParserError == [status |-> 400, message |-> "Unexpected token i in JSON at position 0"]

\* The error-handling middleware: {error: 'Internal server error', message}
\* with status 500, whatever status the error carries.  It sets no header.
ErrorMiddleware(err) == HttpResponse(500, "express-error", NoEnvelope, 1)

\* express.json() rejects a body that is not JSON: the route is skipped and the
\* error-handling middleware answers.
expressJsonRejects ==
    /\ exchange' = [route |-> "POST /mcp", body |-> NoBody, handler |-> requestHandler,
                    initBefore |-> initialized, inRoute |-> FALSE, dispatched |-> FALSE,
                    allowOrigin |-> "", response |-> ErrorMiddleware(BodyParserError)]
    /\ UNCHANGED <<initialized, requestHandler, serverClosed, inflight, sseVars, codec>>

\* The paths requests are sent to, and what a request carries as its body: none,
\* JSON text, or text that is not JSON under Content-Type: application/json.
Paths == {"/mcp", "/sse", "/health", "/unknown"}
Sent == {"none", "json", "malformed"}

\* An exchange outside POST /mcp: it reads no message and calls no handler.
HttpExchange(route, entered, origin, resp) ==
    [route |-> route, body |-> NoBody, handler |-> requestHandler, initBefore |-> initialized,
     inRoute |-> entered, dispatched |-> FALSE, allowOrigin |-> origin, response |-> resp]

\* setupMiddleware(): express.json() comes first and hands a body that is not
\* JSON to the error-handling middleware; only then the CORS middleware sets
\* Access-Control-Allow-Origin and answers an OPTIONS request itself with
\* res.sendStatus(200); every other request goes on to its route.
Middleware(method, path, sent, routed) ==
    IF sent = "malformed"
    THEN HttpExchange(method \o " " \o path, FALSE, "", ErrorMiddleware(BodyParserError))
    ELSE IF method = "OPTIONS"
    THEN HttpExchange(method \o " " \o path, FALSE, "*", HttpResponse(200, "status-text", NoEnvelope, 1))
    ELSE routed

\* An OPTIONS request on any path.
optionsRequest(path, sent) ==
    /\ exchange' = Middleware("OPTIONS", path, sent, NoExchange)
    /\ UNCHANGED <<initialized, requestHandler, serverClosed, inflight, sseVars, codec>>

\* GET /health counting as activity of every SSE client.
getHealth_CountsAsActivity(sent) ==
    /\ exchange' = Middleware("GET", "/health", sent,
                              HttpExchange("GET /health", TRUE, "*", HttpResponse(200, "health", NoEnvelope, 1)))
    /\ sseClients' = [c \in DOMAIN sseClients |-> now]
    /\ UNCHANGED <<initialized, requestHandler, serverClosed, inflight, streams, timers, now, sseCall, codec>>

\* GET /health: res.json({status: 'healthy', name, version, timestamp}).
getHealth(sent) ==
    /\ exchange' = Middleware("GET", "/health", sent,
                              HttpExchange("GET /health", TRUE, "*", HttpResponse(200, "health", NoEnvelope, 1)))
    /\ UNCHANGED <<initialized, requestHandler, serverClosed, inflight, sseVars, codec>>

\* The routes of setupRoutes(); a request for anything else reaches the 404
\* handler: res.status(404).json({error: 'Not found', path}).
Routes == {<<"GET", "/health">>, <<"POST", "/mcp">>, <<"GET", "/sse">>}
notFound(method, path, sent) ==
    /\ <<method, path>> \notin Routes
    /\ exchange' = Middleware(method, path, sent,
                              HttpExchange(method \o " " \o path, FALSE, "*",
                                           HttpResponse(404, "not-found", NoEnvelope, 1)))
    /\ UNCHANGED <<initialized, requestHandler, serverClosed, inflight, sseVars, codec>>

\* shutdown() ending every SSE stream and clearing the intervals.
shutdown_EndsStreams ==
    /\ serverClosed' = TRUE
    /\ sseClients' = <<>>
    /\ streams' = [c \in ClientIds |->
                      IF c \in DOMAIN sseClients THEN [streams[c] EXCEPT !.state = "ended"]
                      ELSE streams[c]]
    /\ timers' = {}
    /\ UNCHANGED <<initialized, requestHandler, inflight, exchange, now, sseCall, codec>>

\* shutdown() clearing the session with the server.
shutdown_ResetsSession ==
    /\ serverClosed' = TRUE
    /\ initialized' = FALSE
    /\ UNCHANGED <<requestHandler, inflight, exchange, sseVars, codec>>

\* MCPServerManager.shutdown(): closes the SDK Server, which no transport is connected to.
shutdown ==
    /\ serverClosed' = TRUE
    /\ UNCHANGED <<initialized, requestHandler, inflight, exchange, sseVars, codec>>

(***************************************************************************)
(* HTTPTransport: the GET /sse route and the SSE methods                   *)
(***************************************************************************)
\* `event: ${event}\ndata: ${JSON.stringify(data)}\n\n`, data given serialized.
Message(event, data) == "event: " \o event \o "\ndata: " \o data \o "\n\n"

\* JSON.stringify of {clientId, timestamp} and of {timestamp}.
ConnectedData(clientId) ==
    "{\"clientId\":\"" \o ToString(clientId) \o "\",\"timestamp\":\"" \o NowISO \o "\"}"
PingData == "{\"timestamp\":\"" \o NowISO \o "\"}"

\* client.response.write(message)
Write(stream, message) ==
    [stream EXCEPT !.first = IF @ = "" THEN message ELSE @, !.last = message,
                   !.written = @ + 1]

\* sendSSEMessage writing without recording the activity.
SendTo_NoActivity(clients, strs, clientId, event, data) ==
    IF clientId \notin DOMAIN clients
    THEN [clients |-> clients, streams |-> strs, found |-> FALSE]
    ELSE [clients |-> clients,
          streams |-> [strs EXCEPT ![clientId] = Write(@, Message(event, data))],
          found |-> TRUE]

\* sendSSEMessage answering true for a client it did not find.
SendTo_FoundAnyway(clients, strs, clientId, event, data) ==
    IF clientId \notin DOMAIN clients
    THEN [clients |-> clients, streams |-> strs, found |-> TRUE]
    ELSE [clients |-> [clients EXCEPT ![clientId] = now],
          streams |-> [strs EXCEPT ![clientId] = Write(@, Message(event, data))],
          found |-> TRUE]

\* sendSSEMessage(clientId, event, data) on a registry and its streams: the
\* registry and streams it leaves, and what it returns.
SendTo(clients, strs, clientId, event, data) ==
    IF clientId \notin DOMAIN clients
    THEN [clients |-> clients, streams |-> strs, found |-> FALSE]
    ELSE [clients |-> [clients EXCEPT ![clientId] = now],
          streams |-> [strs EXCEPT ![clientId] = Write(@, Message(event, data))],
          found |-> TRUE]

\* Every stream the call writes to has room for one more message.
CanWrite(clientIds) == \A c \in clientIds : streams[c].written < MaxWrites

\* GET /sse registering the client without the connected event.
sseConnect_NoConnectedEvent(clientId) ==
    /\ streams[clientId].state = "none"
    /\ sseClients' = [c \in DOMAIN sseClients \cup {clientId} |->
                         IF c = clientId THEN now ELSE sseClients[c]]
    /\ streams' = [streams EXCEPT ![clientId].state = "open", ![clientId].allowOrigin = "*"]
    /\ timers' = timers \cup {clientId}
    /\ sseCall' = NoSseCall
    /\ UNCHANGED <<mcpVars, codec, now>>

\* GET /sse: a fresh client id, the registry entry, the connected event, the
\* close listener and the keepalive interval.
sseConnect(clientId) ==
    /\ streams[clientId].state = "none"
    /\ LET registered == [c \in DOMAIN sseClients \cup {clientId} |->
                             IF c = clientId THEN now ELSE sseClients[c]]
           opened == [streams EXCEPT ![clientId].state = "open", ![clientId].allowOrigin = "*"]
           sent == SendTo(registered, opened, clientId, "connected", ConnectedData(clientId))
       IN /\ sseClients' = sent.clients
          /\ streams' = sent.streams
    /\ timers' = timers \cup {clientId}
    /\ sseCall' = NoSseCall
    /\ UNCHANGED <<mcpVars, codec, now>>

\* The close callback deleting the entry of another client: the first one registered.
onClose_WrongClient(clientId) ==
    /\ streams[clientId].state \in {"open", "ended"}
    /\ sseClients' = [c \in DOMAIN sseClients \ {CHOOSE f \in DOMAIN sseClients \cup {clientId} :
                                                    \A o \in DOMAIN sseClients : f <= o} |-> sseClients[c]]
    /\ streams' = [streams EXCEPT ![clientId].state = "closed"]
    /\ sseCall' = NoSseCall
    /\ UNCHANGED <<mcpVars, codec, timers, now>>

\* The close callback leaving the registry entry in place.
onClose_KeepsEntry(clientId) ==
    /\ streams[clientId].state \in {"open", "ended"}
    /\ streams' = [streams EXCEPT ![clientId].state = "closed"]
    /\ sseCall' = NoSseCall
    /\ UNCHANGED <<mcpVars, codec, sseClients, timers, now>>

\* req.on('close'): the connection of clientId closed.
onClose(clientId) ==
    /\ streams[clientId].state \in {"open", "ended"}
    /\ sseClients' = [c \in DOMAIN sseClients \ {clientId} |-> sseClients[c]]
    /\ streams' = [streams EXCEPT ![clientId].state = "closed"]
    /\ sseCall' = NoSseCall
    /\ UNCHANGED <<mcpVars, codec, timers, now>>

\* The keepalive callback without its has(clientId) test: it never clears the interval.
keepAlive_NeverCleared(clientId) ==
    /\ clientId \in timers
    /\ clientId \in DOMAIN sseClients => CanWrite({clientId})
    /\ sseClients' = SendTo(sseClients, streams, clientId, "ping", PingData).clients
    /\ streams' = SendTo(sseClients, streams, clientId, "ping", PingData).streams
    /\ sseCall' = NoSseCall
    /\ UNCHANGED <<mcpVars, codec, timers, now>>

\* The keepalive interval of clientId fires.
keepAlive(clientId) ==
    /\ clientId \in timers
    /\ IF clientId \notin DOMAIN sseClients
       THEN /\ timers' = timers \ {clientId}
            /\ UNCHANGED <<sseClients, streams>>
       ELSE /\ CanWrite({clientId})
            /\ sseClients' = SendTo(sseClients, streams, clientId, "ping", PingData).clients
            /\ streams' = SendTo(sseClients, streams, clientId, "ping", PingData).streams
            /\ UNCHANGED timers
    /\ sseCall' = NoSseCall
    /\ UNCHANGED <<mcpVars, codec, now>>

\* HTTPTransport.sendSSEMessage(clientId, event, data), called from outside.
sendSSEMessage(clientId, event, data) ==
    LET sent == SendTo(sseClients, streams, clientId, event, data) IN
    /\ CanWrite({clientId} \cap DOMAIN sseClients)
    /\ sseClients' = sent.clients
    /\ streams' = sent.streams
    /\ sseCall' = [op |-> "sendSSEMessage", clientId |-> clientId, returned |-> sent.found]
    /\ UNCHANGED <<mcpVars, codec, timers, now>>

\* broadcastSSEMessage writing to every stream that was ever opened.
broadcastSSEMessage_EveryStream(event, data) ==
    /\ CanWrite({c \in ClientIds : streams[c].state # "none"})
    /\ sseClients' = [c \in DOMAIN sseClients |-> now]
    /\ streams' = [c \in ClientIds |->
                      IF streams[c].state # "none"
                      THEN Write(streams[c], Message(event, data)) ELSE streams[c]]
    /\ sseCall' = NoSseCall
    /\ UNCHANGED <<mcpVars, codec, timers, now>>

\* HTTPTransport.broadcastSSEMessage(event, data)
broadcastSSEMessage(event, data) ==
    /\ CanWrite(DOMAIN sseClients)
    /\ sseClients' = [c \in DOMAIN sseClients |-> now]
    /\ streams' = [c \in ClientIds |->
                      IF c \in DOMAIN sseClients
                      THEN Write(streams[c], Message(event, data)) ELSE streams[c]]
    /\ sseCall' = NoSseCall
    /\ UNCHANGED <<mcpVars, codec, timers, now>>

\* The sweep evicting a client whose idle time equals the limit.
cleanupInactiveClients_Inclusive(maxInactiveMinutes) ==
    LET removedClients == {c \in DOMAIN sseClients :
                              now - sseClients[c] >= maxInactiveMinutes * TicksPerMinute} IN
    /\ sseClients' = [c \in DOMAIN sseClients \ removedClients |-> sseClients[c]]
    /\ streams' = [c \in ClientIds |->
                      IF c \in removedClients THEN [streams[c] EXCEPT !.state = "ended"]
                      ELSE streams[c]]
    /\ sseCall' = NoSseCall
    /\ UNCHANGED <<mcpVars, codec, timers, now>>

\* The sweep ending the streams without deleting the entries.
cleanupInactiveClients_KeepsEntries(maxInactiveMinutes) ==
    LET removedClients == {c \in DOMAIN sseClients :
                              now - sseClients[c] > maxInactiveMinutes * TicksPerMinute} IN
    /\ streams' = [c \in ClientIds |->
                      IF c \in removedClients THEN [streams[c] EXCEPT !.state = "ended"]
                      ELSE streams[c]]
    /\ sseCall' = NoSseCall
    /\ UNCHANGED <<mcpVars, codec, sseClients, timers, now>>

\* HTTPTransport.cleanupInactiveClients(maxInactiveMinutes): inactiveMinutes is
\* the quotient (now - lastActivity) / 1000 / 60, not rounded.
cleanupInactiveClients(maxInactiveMinutes) ==
    LET removedClients == {c \in DOMAIN sseClients :
                              now - sseClients[c] > maxInactiveMinutes * TicksPerMinute} IN
    /\ sseClients' = [c \in DOMAIN sseClients \ removedClients |-> sseClients[c]]
    /\ streams' = [c \in ClientIds |->
                      IF c \in removedClients THEN [streams[c] EXCEPT !.state = "ended"]
                      ELSE streams[c]]
    /\ sseCall' = NoSseCall
    /\ UNCHANGED <<mcpVars, codec, timers, now>>

\* Time passes.
Tick ==
    /\ now < MaxTime
    /\ now' = now + 1
    /\ UNCHANGED <<mcpVars, codec, sseClients, streams, timers, sseCall>>

\* Every outcome a handler's promise can settle with: the manager's results and
\* errors are among them through the promise it returns.
ManagerOutcomes ==
    {handleRequest(b, i).out : b \in WellFormedBodies, i \in BOOLEAN}

\* The server as deployed: MCPServerManager with its transport.  The event loop
\* runs the continuation of a settled promise before it takes another request,
\* so one call is in the route handler at a time.
Next ==
    \/ \E body \in Bodies : PostMcp(1, body)
    \/ \E outcome \in ManagerOutcomes : Resume(1, outcome)
    \/ expressJsonRejects
    \/ shutdown

Spec == Init /\ [][Next]_vars

\* The whole server: the requests of POST /mcp, one per kind of answer, with
\* the SSE clients, their timers, the sweep and shutdown.
ServerBodies ==
    {Body("object", JStr("2.0"), JNum(7), JStr("initialize"), p) :
        p \in {EmptyParams, [EmptyParams EXCEPT !.protocolVersion = JStr("1.0.0")]}}
    \cup {Body("object", JStr("2.0"), JNum(7), JStr(m), NoParams) :
             m \in {"ping", "tools/list", "unknown/method"}}
    \cup {Body("object", JStr("2.0"), JNum(7), JStr("tools/call"),
               [EmptyParams EXCEPT !.name = JStr("unknown-tool")]),
          [PingBody EXCEPT !.jsonrpc = Missing]}

\* The SSE client that is connected while the requests are served.
ServerClients == {1}

ServerNext ==
    \/ \E body \in ServerBodies : PostMcp(1, body)
    \/ \E outcome \in ManagerOutcomes : Resume(1, outcome)
    \/ expressJsonRejects
    \/ shutdown
    \/ \E c \in ServerClients : sseConnect(c)
    \/ \E c \in ServerClients : onClose(c)
    \/ \E c \in ServerClients : keepAlive(c)
    \/ \E c \in ServerClients, e \in Events, d \in Datas : sendSSEMessage(c, e, d)
    \/ \E e \in Events, d \in Datas : broadcastSSEMessage(e, d)
    \/ \E m \in IdleLimits : cleanupInactiveClients(m)
    \/ Tick

ServerSpec == Init /\ [][ServerNext]_vars

\* Two callers of one server.  A request names its sender only by what the
\* sender puts in it: the first caller uses id 7 and does the handshake, the
\* second uses id "7" and never sends initialize.
FirstCaller == JNum(7)
SecondCaller == JStr("7")
SessionBodies ==
    {Body("object", JStr("2.0"), FirstCaller, JStr("initialize"), p) :
        p \in {EmptyParams, [EmptyParams EXCEPT !.protocolVersion = JStr("1.0.0")]}}
    \cup {Body("object", JStr("2.0"), i, JStr(m), p) :
             i \in {FirstCaller, SecondCaller}, m \in {"tools/list", "tools/call", "ping"},
             p \in {NoParams, [EmptyParams EXCEPT !.name = JStr("unknown-tool")]}}

SessionNext ==
    \/ \E body \in SessionBodies : PostMcp(1, body)
    \/ \E outcome \in ManagerOutcomes : Resume(1, outcome)

SessionSpec == Init /\ [][SessionNext]_vars

\* The request endpoint, the health endpoint and the streaming side together.
EndpointsNext ==
    \/ \E body \in ServerBodies : PostMcp(1, body)
    \/ \E outcome \in ManagerOutcomes : Resume(1, outcome)
    \/ \E sent \in Sent : getHealth(sent)
    \/ \E c \in ServerClients : sseConnect(c)
    \/ \E c \in ServerClients : onClose(c)
    \/ \E c \in ServerClients : keepAlive(c)
    \/ \E c \in ServerClients, e \in Events, d \in Datas : sendSSEMessage(c, e, d)
    \/ \E e \in Events, d \in Datas : broadcastSSEMessage(e, d)
    \/ \E m \in IdleLimits : cleanupInactiveClients(m)
    \/ Tick

EndpointsSpec == Init /\ [][EndpointsNext]_vars

\* The deployed timing.  The keepalive period of 30000 ms in ticks, rounded up,
\* and the limit of the sweep in minutes: the smallest that is not below one
\* period (main passes 30; a larger limit evicts no more).
KeepAliveTicks == (TicksPerMinute + 1) \div 2
MaxPeriods == 3
SweepLimit == 1

\* One keepalive period passes with every interval firing on schedule: each
\* callback runs as keepAlive does, and the clock is read just before the
\* next firing, when the clients have been idle longest.
keepAlivePeriod ==
    /\ now < MaxPeriods * KeepAliveTicks
    /\ sseClients' = [c \in DOMAIN sseClients |->
                         IF c \in timers
                         THEN SendTo(sseClients, streams, c, "ping", PingData).clients[c]
                         ELSE sseClients[c]]
    /\ streams' = [c \in ClientIds |->
                      IF c \in timers
                      THEN SendTo(sseClients, streams, c, "ping", PingData).streams[c]
                      ELSE streams[c]]
    /\ timers' = timers \cap DOMAIN sseClients
    /\ now' = now + KeepAliveTicks
    /\ sseCall' = NoSseCall
    /\ UNCHANGED <<mcpVars, codec>>

\* The streaming side as main runs it: clients connect and close, callers send
\* and broadcast, the intervals fire every period and the sweep runs with its limit.
DeployedNext ==
    \/ \E c \in ClientIds : sseConnect(c)
    \/ \E c \in ClientIds : onClose(c)
    \/ keepAlivePeriod
    \/ \E c \in ClientIds, e \in Events, d \in Datas : sendSSEMessage(c, e, d)
    \/ \E e \in Events, d \in Datas : broadcastSSEMessage(e, d)
    \/ cleanupInactiveClients(SweepLimit)

DeployedSpec == TransportInit /\ [][DeployedNext]_vars

\* The server seen from HTTP: every method and path, with and without a body.
HttpNext ==
    \/ \E body \in ServerBodies : PostMcp(1, body)
    \/ \E outcome \in ManagerOutcomes : Resume(1, outcome)
    \/ expressJsonRejects
    \/ \E c \in ServerClients : sseConnect(c)
    \/ \E c \in ServerClients : onClose(c)
    \/ \E path \in Paths, sent \in Sent : optionsRequest(path, sent)
    \/ \E sent \in Sent : getHealth(sent)
    \/ \E method \in {"GET", "POST"}, path \in Paths, sent \in Sent : notFound(method, path, sent)

HttpSpec == Init /\ [][HttpNext]_vars

\* The server as deployed, with the event loop running the continuation of
\* every settled promise.
FairSpec == Spec /\ WF_vars(\E outcome \in ManagerOutcomes : Resume(1, outcome))

\* The responses createSuccessResponse and createErrorResponse build: for each
\* id, the results handlers return and the errors the catch block reports.
Responses ==
    {createSuccessResponse(i, o.value) :
        i \in Ids, o \in {x \in ManagerOutcomes \cup CustomOutcomes : ~x.threw}}
    \cup {createErrorResponse(i, JNum(c), "Internal server error", d) :
             i \in Ids \cup {JNull}, c \in MCPErrorCode,
             d \in {Undefined, JStr("Error: Internal server error at <frames>")}}

\* handler.parseMessage(JSON.stringify(body))
callParseMessage(body) ==
    /\ codec' = [NoCodec EXCEPT !.op = "parseMessage", !.message = JSONstringify(body),
                                !.parsed = parseMessage(JSONstringify(body))]
    /\ UNCHANGED <<mcpVars, sseVars>>

\* JSON.parse(handler.formatResponse(response)), for a response JSON.stringify
\* does not throw on.
callFormatResponse(response) ==
    /\ CanStringify(response)
    /\ codec' = [NoCodec EXCEPT !.op = "formatResponse", !.response = response,
                                !.formatted = formatResponse(response),
                                !.reparsed = ParseResponse(formatResponse(response))]
    /\ UNCHANGED <<mcpVars, sseVars>>

\* ProtocolHandler on its own: texts parsed and responses formatted.
CodecNext ==
    \/ \E body \in Bodies \ {NoBody} : callParseMessage(body)
    \/ \E response \in Responses : callFormatResponse(response)

CodecSpec == Init /\ [][CodecNext]_vars

\* HTTPTransport.getSSEClientCount()
getSSEClientCount == Cardinality(DOMAIN sseClients)

\* The SSE side of the transport on its own: clients connect and close, the
\* keepalive timers fire, callers send and broadcast, and the sweep runs.
SseNext ==
    \/ \E c \in ClientIds : sseConnect(c)
    \/ \E c \in ClientIds : onClose(c)
    \/ \E c \in ClientIds : keepAlive(c)
    \/ \E c \in ClientIds, e \in Events, d \in Datas : sendSSEMessage(c, e, d)
    \/ \E e \in Events, d \in Datas : broadcastSSEMessage(e, d)
    \/ \E m \in IdleLimits : cleanupInactiveClients(m)
    \/ Tick

SseSpec == TransportInit /\ [][SseNext]_vars

\* The connections and their keepalive intervals, with the sweep: an interval
\* that is not cleared fires again (setInterval(..., 30000)).
KeepAliveNext ==
    \/ \E c \in ClientIds : sseConnect(c)
    \/ \E c \in ClientIds : onClose(c)
    \/ \E c \in ClientIds : keepAlive(c)
    \/ \E m \in IdleLimits : cleanupInactiveClients(m)
    \/ Tick

KeepAliveSpec ==
    /\ TransportInit
    /\ [][KeepAliveNext]_vars
    /\ \A c \in ClientIds : WF_vars(keepAlive(c))

\* The transport on its own, with no handler or a handler of the caller's whose
\* promises settle in any order.
TransportBodies ==
    {Body("object", JStr("2.0"), i, JStr(m), NoParams) : i \in Ids, m \in {"ping", "test"}}
    \cup MalformedBodies

TransportNext ==
    \/ setRequestHandler("custom")
    \/ \E s \in Slots, body \in TransportBodies : PostMcp(s, body)
    \/ \E s \in Slots, outcome \in CustomOutcomes : Resume(s, outcome)
    \/ expressJsonRejects

TransportSpec == TransportInit /\ [][TransportNext]_vars

(***************************************************************************)
(* What a client sees on the wire                                          *)
(***************************************************************************)
Contains(str, sub) ==
    \E i \in 1..(Len(str) - Len(sub) + 1) : SubSeq(str, i, i + Len(sub) - 1) = sub

SuccessEnvelope(w) ==
    /\ w.jsonrpc = JStr("2.0")
    /\ w.id.t # "omitted"
    /\ w.result.t # "omitted"
    /\ w.error.t = "omitted"

ErrorEnvelope(w) ==
    /\ w.jsonrpc = JStr("2.0")
    /\ w.id.t # "omitted"
    /\ w.result.t = "omitted"
    /\ w.error.t = "object"
    /\ w.error.code.t = "number"
    /\ w.error.message.t = "string"

\* The last exchange is a POST /mcp that the manager's handler was called for.
ManagerDispatched ==
    /\ exchange.route = "POST /mcp"
    /\ exchange.handler = "manager"
    /\ exchange.body \in WellFormedBodies

ToolsMethods == {"tools/list", "tools/call"}

(***************************************************************************)
(* C1: while the session is not initialized, a well-formed tools/list or   *)
(* tools/call request, whatever its params, is answered with an error      *)
(* envelope with code -32600 whose message contains "not initialized", and *)
(* no such request is left waiting for a success response.                 *)
(***************************************************************************)
C1_UninitializedToolsRejected ==
    /\ (ManagerDispatched /\ ~exchange.initBefore /\ exchange.body.method.s \in ToolsMethods)
          => /\ ErrorEnvelope(exchange.response.body)
             /\ exchange.response.body.error.code.n = INVALID_REQUEST
             /\ Contains(exchange.response.body.error.message.s, "not initialized")
    /\ \A s \in Slots :
          (inflight[s].pc = "await" /\ inflight[s].handler = "manager"
             /\ inflight[s].mcpRequest.method.s \in ToolsMethods)
          => inflight[s].initBefore

C1_Witness ==
    /\ ManagerDispatched
    /\ ~exchange.initBefore
    /\ exchange.body.method.s = "tools/call"
    /\ exchange.body.params = NoParams
    /\ exchange.response.status = 500
    /\ exchange.response.body.error.code.n = INVALID_REQUEST

(***************************************************************************)
(* C3: an initialize request whose params satisfy the initialize schema    *)
(* succeeds whether or not the session is already initialized: the         *)
(* response is a success envelope with protocolVersion, serverInfo and     *)
(* capabilities, and the session is initialized from the dispatch on.      *)
(***************************************************************************)
ValidInitialize(b) == b.method.s = "initialize" /\ initializeRequestSchema(b)

C3_InitializeSucceeds ==
    /\ (ManagerDispatched /\ ValidInitialize(exchange.body))
          => /\ exchange.response.status = 200
             /\ SuccessEnvelope(exchange.response.body)
             /\ exchange.response.body.result.protocolVersion.t = "string"
             /\ exchange.response.body.result.serverInfo.name.t = "string"
             /\ exchange.response.body.result.serverInfo.version.t = "string"
             /\ exchange.response.body.result.capabilities.t = "object"
             /\ initialized
    /\ \A s \in Slots :
          (inflight[s].pc = "await" /\ inflight[s].handler = "manager"
             /\ ValidInitialize(inflight[s].mcpRequest))
          => /\ inflight[s].promise.settled
             /\ ~inflight[s].promise.outcome.threw
             /\ initialized

\* A second initialize, after the first succeeded, has been answered with success.
C3_Witness ==
    /\ ManagerDispatched
    /\ ValidInitialize(exchange.body)
    /\ exchange.initBefore
    /\ exchange.response.status = 200
    /\ initialized

(***************************************************************************)
(* C4: an initialize request whose params fail the initialize schema is    *)
(* answered with an error envelope and a non-2xx status, and handling it   *)
(* leaves the initialized flag as it was.                                  *)
(***************************************************************************)
InvalidInitializeBodies ==
    {b \in WellFormedBodies : b.method.s = "initialize" /\ ~initializeRequestSchema(b)}

C4_InvalidInitializeRejected ==
    /\ [](ManagerDispatched /\ exchange.body \in InvalidInitializeBodies
            => /\ ErrorEnvelope(exchange.response.body)
               /\ exchange.response.status \notin 200..299)
    /\ [][\A b \in InvalidInitializeBodies : PostMcp(1, b) => initialized' = initialized]_vars

\* initialize without protocolVersion was rejected while the session was not
\* initialized, and the session is still not initialized.
C4_Witness ==
    /\ ManagerDispatched
    /\ exchange.body.method.s = "initialize"
    /\ exchange.body.params = EmptyParams
    /\ ~exchange.initBefore
    /\ exchange.response.status = 500
    /\ ~initialized

(***************************************************************************)
(* C5: a well-formed ping request is answered with a success envelope      *)
(* whose result.status is "pong", initialized or not, whatever its params. *)
(***************************************************************************)
C5_PingAlwaysPong ==
    /\ (ManagerDispatched /\ exchange.body.method.s = "ping")
          => /\ exchange.response.status = 200
             /\ SuccessEnvelope(exchange.response.body)
             /\ exchange.response.body.result.status = JStr("pong")
             /\ exchange.response.body.result.timestamp.t = "string"
    /\ \A s \in Slots :
          (inflight[s].pc = "await" /\ inflight[s].handler = "manager"
             /\ inflight[s].mcpRequest.method.s = "ping")
          => inflight[s].promise.settled /\ ~inflight[s].promise.outcome.threw

C5_Witness ==
    /\ ManagerDispatched
    /\ exchange.body.method.s = "ping"
    /\ exchange.body.params.t = "object"
    /\ ~exchange.initBefore
    /\ exchange.response.body.result.status = JStr("pong")

(***************************************************************************)
(* C6: a well-formed request whose method is none of initialize, ping,     *)
(* tools/list, tools/call is answered with an error envelope with code     *)
(* -32601, initialized or not.                                             *)
(***************************************************************************)
KnownMethods == {"initialize", "ping", "tools/list", "tools/call"}

C6_UnknownMethodNotFound ==
    (ManagerDispatched /\ exchange.body.method.s \notin KnownMethods)
       => /\ ErrorEnvelope(exchange.response.body)
          /\ exchange.response.body.error.code.n = METHOD_NOT_FOUND

C6_Witness ==
    /\ ManagerDispatched
    /\ exchange.body.method.s = "unknown/method"
    /\ exchange.initBefore
    /\ exchange.response.body.error.code.n = METHOD_NOT_FOUND

(***************************************************************************)
(* C7: the response to a request that passed envelope parsing carries the  *)
(* id of that request, with its type (string or number), whether it is a   *)
(* success or an error and whatever other requests are in flight.          *)
(***************************************************************************)
PassesEnvelopeParsing(b) == b.t # "undefined" /\ parseMessage(JSONstringify(b)).ok

C7_ResponseEchoesRequestId ==
    (exchange.route = "POST /mcp" /\ exchange.inRoute /\ PassesEnvelopeParsing(exchange.body))
       => exchange.response.body.id = exchange.body.id

\* A request was answered while a request with another id was still in flight.
C7_Witness ==
    /\ exchange.route = "POST /mcp"
    /\ exchange.dispatched
    /\ exchange.body.id = JStr("7")
    /\ exchange.response.body.id = JStr("7")
    /\ \E s \in Slots : inflight[s].pc = "await" /\ inflight[s].mcpRequest.id = JNum(7)

(***************************************************************************)
(* C2: the initialized flag starts false and, over every interleaving of   *)
(* /mcp requests, SSE events and shutdown(), once true it is never false   *)
(* again.                                                                  *)
(***************************************************************************)
C2_InitializedMonotonic ==
    /\ initialized = FALSE
    /\ [][initialized => initialized']_vars

\* The flag is still set after a rejected initialize, shutdown() and the sweep
\* ending an SSE stream.
C2_Witness ==
    /\ initialized
    /\ serverClosed
    /\ exchange.initBefore
    /\ exchange.body.method = JStr("initialize")
    /\ ErrorEnvelope(exchange.response.body)
    /\ streams[1].state = "ended"

(***************************************************************************)
(* C8: every response body of the POST /mcp route has exactly one of       *)
(* result and error, whatever the request handler returns or throws.       *)
(***************************************************************************)
C8_ExactlyOneOfResultError ==
    (exchange.route = "POST /mcp" /\ exchange.inRoute)
       => (exchange.response.body.result.t # "omitted") # (exchange.response.body.error.t # "omitted")

(***************************************************************************)
(* C9: every request that reaches the POST /mcp route is eventually        *)
(* answered, with exactly one response body, and that body is a success    *)
(* envelope or an error envelope with jsonrpc, id, error.code and          *)
(* error.message; no failure leaves it unanswered or answered twice.       *)
(***************************************************************************)
C9_AnsweredExactlyOnce ==
    /\ []((exchange.route = "POST /mcp" /\ exchange.inRoute)
            => /\ exchange.response.sends = 1
               /\ \/ SuccessEnvelope(exchange.response.body)
                  \/ ErrorEnvelope(exchange.response.body))
    /\ \A s \in Slots : (inflight[s].pc = "await") ~> (inflight[s].pc = "idle")

\* A request whose envelope does not parse and whose id cannot be recovered
\* was answered once, with an error envelope.
C9_Witness ==
    /\ exchange.route = "POST /mcp"
    /\ exchange.inRoute
    /\ ~exchange.dispatched
    /\ exchange.body.id.t = "missing"
    /\ exchange.response.sends = 1
    /\ ErrorEnvelope(exchange.response.body)

(***************************************************************************)
(* C10: the HTTP status of a POST /mcp response is 200 exactly when the    *)
(* body is a success envelope, and 500 for every error envelope, whatever  *)
(* its error code.                                                         *)
(***************************************************************************)
C10_StatusOnlySuccessOrError ==
    (exchange.route = "POST /mcp" /\ exchange.inRoute)
       => /\ exchange.response.status = 200 <=> SuccessEnvelope(exchange.response.body)
          /\ ErrorEnvelope(exchange.response.body) => exchange.response.status = 500
          /\ exchange.response.status \in {200, 500}

\* An error other than an internal error was answered with status 500.
C10_Witness ==
    /\ exchange.route = "POST /mcp"
    /\ exchange.inRoute
    /\ ErrorEnvelope(exchange.response.body)
    /\ exchange.response.body.error.code.n = METHOD_NOT_FOUND
    /\ exchange.response.status = 500

(***************************************************************************)
(* C11: a POST /mcp whose body is not JSON is answered with status 400, by *)
(* a body that is not a JSON-RPC envelope, and is never parsed as a        *)
(* message nor dispatched.                                                 *)
(***************************************************************************)
C11_MalformedJsonIs400 ==
    (exchange.route = "POST /mcp" /\ ~exchange.inRoute)
       => /\ exchange.response.status = 400
          /\ exchange.response.shape # "envelope"
          /\ ~exchange.dispatched

(***************************************************************************)
(* C12: the error.code of every error envelope of POST /mcp is one of the  *)
(* five codes of MCPErrorCode, whatever the request handler throws.        *)
(***************************************************************************)
C12_OnlyEnumeratedCodes ==
    (exchange.route = "POST /mcp" /\ exchange.inRoute /\ ErrorEnvelope(exchange.response.body))
       => exchange.response.body.error.code.n \in MCPErrorCode

(***************************************************************************)
(* C13: the session check comes before the schema check: a tools/list or   *)
(* tools/call sent while uninitialized with params its schema rejects is   *)
(* reported as "not initialized", never as "Invalid request format".       *)
(***************************************************************************)
C13_PreconditionBeforeSchema ==
    (/\ ManagerDispatched
     /\ ~exchange.initBefore
     /\ exchange.body.method.s \in ToolsMethods
     /\ ~SchemaAccepts(exchange.body.method.s, exchange.body))
       => /\ ErrorEnvelope(exchange.response.body)
          /\ Contains(exchange.response.body.error.message.s, "not initialized")
          /\ ~Contains(exchange.response.body.error.message.s, "Invalid request format")

\* An uninitialized tools/call without name was answered "not initialized".
C13_Witness ==
    /\ ManagerDispatched
    /\ ~exchange.initBefore
    /\ exchange.body.method = JStr("tools/call")
    /\ exchange.body.params.name.t = "missing"
    /\ ErrorEnvelope(exchange.response.body)
    /\ Contains(exchange.response.body.error.message.s, "not initialized")

(***************************************************************************)
(* C14: handling ping, tools/list, tools/call or an unrecognized method    *)
(* leaves the initialized flag as it was, whether the request succeeds or  *)
(* fails: only the handling of initialize can change it.                   *)
(***************************************************************************)
C14_OnlyInitializeChangesSession ==
    [][(initialized' # initialized)
          => \/ \E s \in Slots : /\ inflight[s].pc = "idle"
                                 /\ inflight'[s].pc = "await"
                                 /\ inflight'[s].mcpRequest.method = JStr("initialize")
             \/ /\ exchange' # exchange
                /\ exchange'.dispatched
                /\ exchange'.body.method = JStr("initialize")]_vars

\* A ping was answered "pong" and the session is still not initialized.
C14_Witness ==
    /\ ManagerDispatched
    /\ exchange.body.method = JStr("ping")
    /\ SuccessEnvelope(exchange.response.body)
    /\ ~exchange.initBefore
    /\ ~initialized

C16_ToolNotFoundMessage ==
    (/\ ManagerDispatched
     /\ exchange.initBefore
     /\ exchange.body.method = JStr("tools/call")
     /\ toolsCallRequestSchema(exchange.body))
       => exchange.response.body.error.message = JStr("Tool not found: " \o exchange.body.params.name.s)

\* A JSON body whose jsonrpc, id or method is missing or of the wrong type.
InvalidEnvelope(b) ==
    /\ b.t \in {"object", "array"}
    /\ \/ b.jsonrpc # JStr("2.0")
       \/ b.id.t \notin {"string", "number"}
       \/ b.method.t # "string"

(***************************************************************************)
(* C17: the error response for a request that failed envelope parsing      *)
(* carries the id of the raw body when that is a string or a number and    *)
(* the sentinel 0 otherwise, so the id of every response is a string or a  *)
(* number; a response is sent whatever the id is.                          *)
(***************************************************************************)
C17_BestEffortId ==
    (exchange.route = "POST /mcp" /\ exchange.inRoute /\ InvalidEnvelope(exchange.body))
       => /\ exchange.response.sends = 1
          /\ exchange.response.body.id.t \in {"string", "number"}
          /\ exchange.response.body.id =
                IF exchange.body.id.t \in {"string", "number"} THEN exchange.body.id ELSE JNum(0)

(***************************************************************************)
(* C18: a JSON body whose generic envelope is invalid (jsonrpc, id or      *)
(* method missing or mistyped) is answered with an error envelope with     *)
(* code -32700; the request handler is not invoked for it and the session  *)
(* state is unchanged.                                                     *)
(***************************************************************************)
C18_InvalidEnvelopeIsParseError ==
    /\ []((exchange.route = "POST /mcp" /\ exchange.inRoute /\ InvalidEnvelope(exchange.body))
            => /\ ErrorEnvelope(exchange.response.body)
               /\ exchange.response.body.error.code.n = PARSE_ERROR
               /\ ~exchange.dispatched)
    /\ [][\A b \in MalformedBodies :
             (InvalidEnvelope(b) /\ PostMcp(1, b))
                => /\ initialized' = initialized
                   /\ inflight' = inflight
                   /\ exchange'.body = b]_vars

\* A request without method was answered -32700 in an initialized session,
\* which is still initialized.
C18_Witness ==
    /\ exchange.route = "POST /mcp"
    /\ exchange.inRoute
    /\ InvalidEnvelope(exchange.body)
    /\ exchange.body.method.t = "missing"
    /\ exchange.response.body.error.code.n = PARSE_ERROR
    /\ exchange.initBefore
    /\ initialized

(***************************************************************************)
(* C19: when the envelope is well-formed and the method's precondition     *)
(* holds but the params fail the method's schema, the response is an error *)
(* envelope with code -32600, never -32602 or -32603.                      *)
(***************************************************************************)
C19_SchemaFailureIsInvalidRequest ==
    (/\ ManagerDispatched
     /\ \/ exchange.body.method = JStr("initialize")
        \/ exchange.body.method.s \in ToolsMethods /\ exchange.initBefore
     /\ ~SchemaAccepts(exchange.body.method.s, exchange.body))
       => /\ ErrorEnvelope(exchange.response.body)
          /\ exchange.response.body.error.code.n = INVALID_REQUEST

\* After initialize, a tools/call without name was answered -32600.
C19_Witness ==
    /\ ManagerDispatched
    /\ exchange.initBefore
    /\ exchange.body.method = JStr("tools/call")
    /\ exchange.body.params.name.t = "missing"
    /\ exchange.response.body.error.code.n = INVALID_REQUEST

\* A request text with jsonrpc "2.0", a string or number id, a string method
\* and params that are an object or not there.
WellFormedText(text) ==
    /\ text.t = "object"
    /\ text.jsonrpc = JStr("2.0")
    /\ text.id.t \in {"string", "number"}
    /\ text.method.t = "string"
    /\ text.params.t \in {"omitted", "object"}

\* A response without the properties whose value is undefined (the equality
\* of expect(...).toEqual).
DropUndefined(v) == IF v.t = "undefined" THEN Missing ELSE v

JsonValueOf(response) ==
    [jsonrpc |-> DropUndefined(response.jsonrpc),
     id |-> DropUndefined(response.id),
     result |-> IF response.result.t = "undefined" THEN NoResult ELSE response.result,
     error |-> [response.error EXCEPT !.data = DropUndefined(@)]]

ConnectedMessage(c) == Message("connected", ConnectedData(c))
Registered == DOMAIN sseClients

(***************************************************************************)
(* C21: GET /sse registers exactly one new client, under a fresh id, and   *)
(* writes exactly one connected event carrying that id; on every stream    *)
(* the connected event is the first event written, before any ping, send   *)
(* or broadcast, and it is written once.                                   *)
(***************************************************************************)
C21_ConnectedEventFirst ==
    /\ [](\A c \in ClientIds :
            /\ streams[c].state # "none" => streams[c].first = ConnectedMessage(c)
            /\ streams[c].written > 1 => streams[c].last # ConnectedMessage(c))
    /\ [][\A c \in ClientIds :
             sseConnect(c)
                => /\ c \notin Registered
                   /\ DOMAIN sseClients' = Registered \cup {c}
                   /\ streams'[c].written = 1
                   /\ streams'[c].last = ConnectedMessage(c)
                   /\ \A d \in ClientIds \ {c} : streams'[d] = streams[d]]_vars

\* Two clients are connected; the first got its connected event and then a ping.
C21_Witness ==
    /\ Registered = {1, 2}
    /\ streams[1].first = ConnectedMessage(1)
    /\ streams[1].last = Message("ping", PingData)
    /\ streams[1].written = 2
    /\ streams[2].first = ConnectedMessage(2)

(***************************************************************************)
(* C22: when the connection of an SSE client closes the client leaves the  *)
(* registry in that step, and from then on nothing is written to its       *)
(* stream and the sweep never ends it.                                     *)
(***************************************************************************)
C22_ClosedClientUntouched ==
    /\ [](\A c \in ClientIds : streams[c].state = "closed" => c \notin Registered)
    /\ [][\A c \in ClientIds :
             /\ onClose(c) => c \notin DOMAIN sseClients'
             /\ streams[c].state = "closed" => streams'[c] = streams[c]]_vars

\* Client 1 closed after its connected event, its timer was cleared, and a
\* later message reached client 2 only.
C22_Witness ==
    /\ streams[1].state = "closed"
    /\ streams[1].written = 1
    /\ 1 \notin timers
    /\ streams[2].state = "open"
    /\ streams[2].last = Message("message", "{}")

(***************************************************************************)
(* C23: broadcastSSEMessage(event, data) writes the same serialized        *)
(* message exactly once to every client registered at the call and to no   *)
(* other stream; with an empty registry it writes nothing.                 *)
(***************************************************************************)
C23_BroadcastToRegisteredOnly ==
    [][\A e \in Events, d \in Datas :
          broadcastSSEMessage(e, d)
             => \A c \in ClientIds :
                   IF c \in Registered
                   THEN /\ streams'[c].written = streams[c].written + 1
                        /\ streams'[c].last = Message(e, d)
                        /\ streams'[c].state = streams[c].state
                   ELSE streams'[c] = streams[c]]_vars

\* Both registered clients hold the same message, written at the same time.
C23_Witness ==
    /\ Registered = {1, 2}
    /\ streams[1].last = Message("message", "{}")
    /\ streams[2].last = streams[1].last
    /\ sseClients[1] = sseClients[2]
    /\ sseClients[1] = 1

(***************************************************************************)
(* C24: sendSSEMessage(clientId, event, data) returns true exactly when    *)
(* clientId is registered; then it writes the event to that client's       *)
(* stream only and refreshes only that client's lastActivity; otherwise it *)
(* returns false, writes nothing and changes no state.                     *)
(***************************************************************************)
C24_SendReturnsFound ==
    [][\A c \in ClientIds, e \in Events, d \in Datas :
          sendSSEMessage(c, e, d)
             => /\ sseCall'.returned = (c \in Registered)
                /\ DOMAIN sseClients' = Registered
                /\ \A o \in ClientIds \ {c} :
                      /\ streams'[o] = streams[o]
                      /\ o \in Registered => sseClients'[o] = sseClients[o]
                /\ IF c \in Registered
                   THEN /\ streams'[c].written = streams[c].written + 1
                        /\ streams'[c].last = Message(e, d)
                        /\ sseClients'[c] = now
                   ELSE /\ streams' = streams
                        /\ sseClients' = sseClients
                        /\ timers' = timers]_vars

\* A send to a client that had closed returned false.
C24_Witness ==
    /\ sseCall.op = "sendSSEMessage"
    /\ ~sseCall.returned
    /\ streams[sseCall.clientId].state = "closed"
    /\ streams[sseCall.clientId].written = 1

(***************************************************************************)
(* C25: cleanupInactiveClients(max) ends the stream of and deregisters     *)
(* exactly the registered clients idle for strictly more than max minutes; *)
(* every other registered client stays registered, open and with its       *)
(* lastActivity, and every client is examined.                             *)
(***************************************************************************)
C25_SweepEvictsExactlyIdle ==
    [][\A m \in IdleLimits :
          cleanupInactiveClients(m)
             => LET idle == {c \in Registered : now - sseClients[c] > m * TicksPerMinute} IN
                /\ DOMAIN sseClients' = Registered \ idle
                /\ \A c \in idle : streams'[c].state = "ended"
                /\ \A c \in ClientIds \ idle : streams'[c] = streams[c]
                /\ \A c \in Registered \ idle : sseClients'[c] = sseClients[c]]_vars

\* The sweep ended the idle client and kept the one that was just active.
C25_Witness ==
    /\ streams[1].state = "ended"
    /\ 1 \notin Registered
    /\ 2 \in Registered
    /\ sseClients[2] = now
    /\ now > 0

(***************************************************************************)
(* C26: the registry holds exactly the clients that connected and were     *)
(* neither closed nor evicted, one entry per id, and getSSEClientCount is  *)
(* their number; removing a client that is already absent changes nothing. *)
(***************************************************************************)
C26_RegistryIsLiveClients ==
    /\ [](/\ Registered = {c \in ClientIds : streams[c].state = "open"}
          /\ getSSEClientCount = Cardinality({c \in ClientIds : streams[c].state = "open"}))
    /\ [][\A c \in ClientIds :
             (onClose(c) /\ c \notin Registered) => sseClients' = sseClients]_vars

\* One client was evicted, the other is still counted.
C26_Witness ==
    /\ streams[1].state = "ended"
    /\ streams[2].state = "open"
    /\ getSSEClientCount = 1

(***************************************************************************)
(* C27: every HTTP response carries Access-Control-Allow-Origin: *, on     *)
(* every endpoint: the answers of /mcp, /health and the 404 handler, the   *)
(* head of an SSE stream, and the answer to a body that fails JSON parsing *)
(* in the body-parsing middleware.                                         *)
(***************************************************************************)
C27_EveryResponseAllowsOrigin ==
    /\ exchange.response.status # 0 => exchange.allowOrigin = "*"
    /\ \A c \in ClientIds : streams[c].state # "none" => streams[c].allowOrigin = "*"

(***************************************************************************)
(* C28: an OPTIONS request on any path is answered with a success status   *)
(* by the CORS middleware and reaches no route: no method is dispatched,   *)
(* no SSE client is registered, no keepalive timer is started and the      *)
(* initialized flag is unchanged.                                          *)
(***************************************************************************)
C28_OptionsAnsweredByCors ==
    [][\A path \in Paths, sent \in Sent :
          optionsRequest(path, sent)
             => /\ exchange'.response.status \in 200..299
                /\ exchange'.allowOrigin = "*"
                /\ ~exchange'.inRoute
                /\ ~exchange'.dispatched
                /\ UNCHANGED <<initialized, inflight, sseClients, streams, timers>>]_vars

(***************************************************************************)
(* C29: a failure raised while a request is handled is answered with code  *)
(* -32603 unless it is an Error carrying one of the codes of MCPErrorCode, *)
(* which is then preserved; no code, a code that is not a number and a     *)
(* thrown value that is not an Error all give -32603.                      *)
(***************************************************************************)
C29_FailureCode ==
    [][\A s \in Slots, outcome \in CustomOutcomes :
          (Resume(s, outcome) /\ outcome.threw)
             => /\ ErrorEnvelope(exchange'.response.body)
                /\ exchange'.response.body.error.code.n =
                      (IF /\ outcome.error.isError
                          /\ outcome.error.code.t = "number"
                          /\ outcome.error.code.n \in MCPErrorCode
                       THEN outcome.error.code.n
                       ELSE INTERNAL_ERROR)]_vars

(***************************************************************************)
(* C30: the envelope's method must be a non-empty string: a request whose  *)
(* method is "" fails in parseMessage with -32700 and is never dispatched. *)
(***************************************************************************)
C30_EmptyMethodIsParseError ==
    (/\ exchange.route = "POST /mcp"
     /\ exchange.inRoute
     /\ exchange.body.t = "object"
     /\ exchange.body.method = JStr(""))
       => /\ ErrorEnvelope(exchange.response.body)
          /\ exchange.response.body.error.code.n = PARSE_ERROR
          /\ ~exchange.dispatched

(***************************************************************************)
(* C31: each SSE connection owns one keepalive timer.  A firing while the  *)
(* client is registered writes one ping to that client only; the first     *)
(* firing after the client was deregistered, by close or by the sweep,     *)
(* writes nothing and cancels the timer, so the timer of a deregistered    *)
(* client is eventually cancelled, and a cancelled timer never runs again. *)
(***************************************************************************)
C31_KeepAliveTimers ==
    /\ [](timers \subseteq {c \in ClientIds : streams[c].state # "none"})
    /\ [][\A c \in ClientIds :
             /\ sseConnect(c) => (c \notin timers /\ timers' = timers \cup {c})
             /\ (streams[c].state # "none" /\ c \notin timers) => c \notin timers'
             /\ keepAlive(c)
                  => IF c \in Registered
                     THEN /\ streams'[c].written = streams[c].written + 1
                          /\ streams'[c].last = Message("ping", PingData)
                          /\ \A o \in ClientIds \ {c} : streams'[o] = streams[o]
                          /\ timers' = timers
                     ELSE /\ streams' = streams
                          /\ sseClients' = sseClients
                          /\ timers' = timers \ {c}]_vars
    /\ \A c \in ClientIds : (c \in timers /\ c \notin Registered) ~> (c \notin timers)

\* The timer of a client that closed was cancelled; the client the sweep
\* evicted had got a ping and its timer is still to fire.
C31_Witness ==
    /\ streams[1].state = "closed"
    /\ 1 \notin timers
    /\ streams[2].state = "ended"
    /\ 2 \in timers
    /\ streams[2].last = Message("ping", PingData)

(***************************************************************************)
(* C32: under every interleaving of connect, close, keepalive firing,      *)
(* send, broadcast and sweep, every registered client has an open stream,  *)
(* no write goes to a stream that was ended or closed, and every change of *)
(* the registry is the one its step asked for: connect adds its client,    *)
(* close removes its client, the sweep only removes, nothing else changes  *)
(* the set of registered clients.                                          *)
(***************************************************************************)
C32_RegistryConsistent ==
    /\ [](\A c \in Registered : streams[c].state = "open")
    /\ [][/\ \A c \in ClientIds :
                /\ streams[c].state \in {"ended", "closed"}
                      => streams'[c].written = streams[c].written
                /\ sseConnect(c) => DOMAIN sseClients' = Registered \cup {c}
                /\ onClose(c) => DOMAIN sseClients' = Registered \ {c}
                /\ keepAlive(c) => DOMAIN sseClients' = Registered
          /\ (\E c \in ClientIds, e \in Events, d \in Datas : sendSSEMessage(c, e, d))
                => DOMAIN sseClients' = Registered
          /\ (\E e \in Events, d \in Datas : broadcastSSEMessage(e, d))
                => DOMAIN sseClients' = Registered
          /\ (\E m \in IdleLimits : cleanupInactiveClients(m))
                => DOMAIN sseClients' \subseteq Registered]_vars

\* The sweep ended client 1 before any ping; a message sent afterwards reached
\* client 2 only.
C32_Witness ==
    /\ streams[1].state = "ended"
    /\ streams[1].written = 1
    /\ 1 \in timers
    /\ streams[2].state = "open"
    /\ streams[2].written = 2
    /\ streams[2].last = Message("message", "{}")
    /\ sseClients[2] = now
    /\ now = MaxTime

NotInitializedError(w) ==
    /\ ErrorEnvelope(w)
    /\ w.error.code.n = INVALID_REQUEST
    /\ Contains(w.error.message.s, "not initialized")

(***************************************************************************)
(* C34: the server has one initialized flag, shared by all callers: once   *)
(* one caller's initialize succeeded, the tools/list and tools/call of a   *)
(* caller that never sent initialize pass the initialization check, and    *)
(* before that they fail it whoever sends them.                            *)
(***************************************************************************)
C34_OneSessionForAllCallers ==
    /\ []((ManagerDispatched /\ exchange.body.method.s \in ToolsMethods)
            => (NotInitializedError(exchange.response.body) <=> ~exchange.initBefore))
    /\ [][\A b \in SessionBodies :
             (PostMcp(1, b) /\ b.method.s = "initialize" /\ initializeRequestSchema(b))
                => initialized']_vars
    /\ [][initialized => initialized']_vars
    /\ [](\A s \in Slots : inflight[s].pc = "await" => inflight[s].initBefore = initialized
                                                       \/ inflight[s].mcpRequest.method.s = "initialize")

\* The second caller, which never sent initialize, got the tool list.
C34_Witness ==
    /\ ManagerDispatched
    /\ exchange.body.id = SecondCaller
    /\ exchange.body.method.s = "tools/list"
    /\ exchange.initBefore
    /\ SuccessEnvelope(exchange.response.body)
    /\ exchange.response.body.id = SecondCaller

\* A step that changes the streaming side, and a step of a request endpoint.
SseChanged == <<sseClients, streams, timers>>' # <<sseClients, streams, timers>>
RequestStep == exchange' # exchange \/ inflight' # inflight

(***************************************************************************)
(* C35: the streaming side and the session are independent.  A step that   *)
(* changes the registry, a stream, a lastActivity or a timer leaves the    *)
(* initialized flag and the requests alone, and connect needs no           *)
(* initialized session; a step of POST /mcp or GET /health changes no      *)
(* registry entry, stream, lastActivity or timer; GET /health leaves the   *)
(* flag alone too.                                                         *)
(***************************************************************************)
C35_StreamingIndependentOfSession ==
    /\ [][SseChanged => (initialized' = initialized /\ ~RequestStep)]_vars
    /\ [][RequestStep => ~SseChanged]_vars
    /\ [][\A sent \in Sent : getHealth(sent) => (initialized' = initialized /\ ~SseChanged)]_vars
    /\ [](\A c \in ServerClients : streams[c].state = "none" => ENABLED sseConnect(c))

\* Without any handshake a client connected, got a message and was evicted,
\* and the last request was refused for want of a session.
C35_Witness ==
    /\ ~initialized
    /\ streams[1].state = "ended"
    /\ streams[1].written = 2
    /\ ManagerDispatched
    /\ exchange.body.method.s = "tools/list"
    /\ NotInitializedError(exchange.response.body)

(***************************************************************************)
(* C36: while no request handler is installed, every well-formed request   *)
(* of POST /mcp is answered at once with an error envelope: status 500,    *)
(* code -32603, the id of the request; never with a success envelope, and  *)
(* no such request is left waiting.                                        *)
(***************************************************************************)
C36_NoHandlerIsInternalError ==
    /\ (/\ exchange.route = "POST /mcp"
        /\ exchange.inRoute
        /\ exchange.handler = "none"
        /\ parseMessage(JSONstringify(exchange.body)).ok)
          => /\ exchange.response.status = 500
             /\ exchange.response.sends = 1
             /\ ErrorEnvelope(exchange.response.body)
             /\ exchange.response.body.error.code.n = INTERNAL_ERROR
             /\ exchange.response.body.error.message.s = "Request handler not configured"
             /\ exchange.response.body.id = exchange.body.id
             /\ ~exchange.dispatched
    /\ \A s \in Slots : inflight[s].pc = "await" => inflight[s].handler # "none"

\* The request with the text id was refused before any handler was installed.
C36_Witness ==
    /\ requestHandler = "none"
    /\ exchange.route = "POST /mcp"
    /\ exchange.handler = "none"
    /\ exchange.body.method.s = "test"
    /\ exchange.body.id = JStr("7")
    /\ exchange.response.status = 500
    /\ exchange.response.body.id = JStr("7")

\* The part of a stack trace no message has.
StackFrames == " at <frames>"

(***************************************************************************)
(* C37: in every error envelope of POST /mcp a stack trace, when there is  *)
(* one, is in error.data only: error.message is the message of the failure *)
(* or, for a thrown value that is not an Error, "Internal server error",   *)
(* and never contains the stack.                                           *)
(***************************************************************************)
C37_StackOnlyInData ==
    /\ []((exchange.route = "POST /mcp" /\ exchange.inRoute /\ ErrorEnvelope(exchange.response.body))
            => /\ ~Contains(exchange.response.body.error.message.s, StackFrames)
               /\ exchange.response.body.error.data.t \in {"omitted", "string"}
               /\ exchange.response.body.error.data.t = "string"
                     => Contains(exchange.response.body.error.data.s, StackFrames))
    /\ [][\A s \in Slots, outcome \in CustomOutcomes :
             (Resume(s, outcome) /\ outcome.threw)
                => /\ exchange'.response.body.error.message.s =
                         (IF outcome.error.isError THEN outcome.error.message
                          ELSE "Internal server error")
                   /\ exchange'.response.body.error.data =
                         (IF outcome.error.isError THEN outcome.error.stack
                          ELSE [t |-> "omitted", s |-> "", n |-> 0])]_vars

\* An Error thrown by the handler: its message and, apart from it, its stack.
C37_Witness ==
    /\ exchange.route = "POST /mcp"
    /\ exchange.dispatched
    /\ ErrorEnvelope(exchange.response.body)
    /\ exchange.response.body.error.message.s = "boom"
    /\ exchange.response.body.error.data.s = "Error: boom at <frames>"

(***************************************************************************)
(* C38: every keepalive ping refreshes its client's lastActivity, so a     *)
(* registered client, whose timer is running, is never idle for more than  *)
(* one keepalive period; the sweep as deployed, whose limit is above that, *)
(* never evicts a client, and a client leaves the registry only when its   *)
(* connection closes.  lastActivity changes only with a write of the       *)
(* server to the client's stream.                                          *)
(***************************************************************************)
C38_SweepNeverEvicts ==
    /\ [](\A c \in Registered : c \in timers /\ now - sseClients[c] <= KeepAliveTicks)
    /\ [](\A c \in ClientIds : streams[c].state # "ended")
    /\ [][/\ keepAlivePeriod => \A c \in Registered : sseClients'[c] = now
          /\ cleanupInactiveClients(SweepLimit) => UNCHANGED <<sseClients, streams>>
          /\ \A c \in Registered :
                /\ c \notin DOMAIN sseClients' => onClose(c)
                /\ (c \in DOMAIN sseClients' /\ sseClients'[c] # sseClients[c])
                      => streams'[c].written = streams[c].written + 1]_vars

\* At the end of the last period both clients are still registered; the first
\* has had nothing but the connected event and one ping for each period.
C38_Witness ==
    /\ now = MaxPeriods * KeepAliveTicks
    /\ Registered = {1, 2}
    /\ streams[1].written = MaxPeriods + 1
    /\ streams[1].last = Message("ping", PingData)
    /\ now - sseClients[1] = KeepAliveTicks
    /\ sseCall.op = "none"

(***************************************************************************)
(* C39: MCPServerManager.shutdown() leaves the core state as it is: the    *)
(* initialized flag, the SSE clients, their streams and their keepalive    *)
(* timers, and the requests in progress; a request of POST /mcp handled    *)
(* after it is answered from its body and the flag as before.              *)
(***************************************************************************)
C39_ShutdownChangesNothing ==
    /\ [][serverClosed' # serverClosed
             => UNCHANGED <<initialized, requestHandler, inflight, exchange,
                            sseClients, streams, timers>>]_vars
    /\ [][\A b \in ServerBodies :
             PostMcp(1, b)
                => LET parsed == parseMessage(JSONstringify(b))
                       handled == handleRequest(parsed.request, initialized) IN
                   IF ~parsed.ok
                   THEN exchange'.response = CatchError(b, parsed.error) /\ initialized' = initialized
                   ELSE /\ initialized' = handled.initialized
                        /\ IF handled.out.threw
                           THEN exchange'.response = CatchError(b, handled.out.error)
                           ELSE inflight'[1].promise.outcome = handled.out]_vars
    /\ []((ManagerDispatched /\ exchange.body.method.s = "ping")
            => SuccessEnvelope(exchange.response.body))

\* After shutdown() the session is still initialized, the SSE client is still
\* registered with its timer, and a tools/list got the list.
C39_Witness ==
    /\ serverClosed
    /\ initialized
    /\ 1 \in Registered
    /\ 1 \in timers
    /\ streams[1].state = "open"
    /\ ManagerDispatched
    /\ exchange.body.method.s = "tools/list"
    /\ SuccessEnvelope(exchange.response.body)

=============================================================================
